---- MODULE Spec2Model ----
(***************************************************************************)
(* State-machine model of vsekhar/gocal:                                   *)
(*   - batch.Up between a producer and a consumer (internal/batch), the    *)
(*     shape of the building-ingestion pipeline of itercal.Buildings,      *)
(*   - interval.Map with Add and Covering (internal/interval),             *)
(*   - the room assignment pass of cmd/gocal/main.go,                      *)
(*   - the free/busy fetch task of main beside main's catalog sort,        *)
(*   - single calls of Interval.Overlaps, distance, SearchBuildings and    *)
(*     the existing-room lookup of main.                                   *)
(* Each part has its own specification (SpecBatch, SpecFastProducer,       *)
(* SpecLive, SpecMap, SpecAssign, SpecFetch, SpecOverlaps, SpecDistance,   *)
(* SpecSearch, SpecLookup); the variables of the other parts stay at       *)
(* their initial values.                                                   *)
(***************************************************************************)
EXTENDS Integers, Sequences, FiniteSets, TLC

VARIABLES
    \* ---- batch.Up, its producer, its consumer and its caller
    numValues,      \* how many values the producer sends before closing
    valCap,         \* capacity of the values channel
    values,         \* buffer of the values channel
    valuesClosed,   \* close(values) has run
    produced,       \* number of values the producer has sent
    pcProd,         \* producer: "send" | "done"
    batch,          \* Up's local slice `batch`
    pcUp,           \* Up: "select" | "recv" | "send" | "sendfinal" | "done"
    retAt,          \* source line of the return Up took (0: not returned)
    received,       \* history: values Up received, in order
    emitted,        \* history: batches Up sent, with the line of the send
    batchesClosed,  \* close(batches) has run
    pcMain,         \* caller of Up: "up" | "wait" | "joined"
    pcCons,         \* consumer: "recv" | "body" | "done"
    consumed,       \* history: batches the consumer received
    biggestBatch,   \* TestBatch's biggestBatch
    \* ---- interval.Map
    intervals,      \* im.intervals
    data,           \* im.data
    mapPc,          \* "idle" | "adding" (an Add call is in flight)
    addItr,         \* Add's local itr
    addVal,         \* Add's argument t
    addIdx,         \* Add's local i, computed before the two tasks start
    ivShifted,      \* the task of lines 59-64 has finished
    dataShifted,    \* the task of lines 65-71 has finished
    covQuery,       \* arguments of the latest Covering call on this map state
    covResult,      \* its result
    added,          \* history: the interval of each Add call, in call order
    \* ---- the assignment pass of main
    catalog,        \* resourcesInBuildingIndex, sorted by email (line 275)
    freeBusy,       \* freeBusy: email -> busy intervals, once the fetch has joined
    roomsImGoingTo, \* roomsImGoingTo: per event a catalog room or Nil
    prefFloor,      \* *floor
    prefSection,    \* *section
    dryRun,         \* *dryRun
    evIdx,          \* position of the forward scan (1-based); Len+1 when over
    fatal,          \* os.Exit(1) was called: the run has stopped
    booked,         \* per event, the room appended to event.Attendees (line 434)
    evFlags,        \* per scanned event, its AttendeesOmitted and #room marker
    writes,         \* calendar API calls made, in order
    \* ---- one call of a function of the program, taken on its own
    callOp,         \* the function called ("" when none)
    callArgs,       \* its arguments
    callResult,     \* <<>> while the call has not returned, then its results
    \* ---- the free/busy fetch task of main and main beside it (lines 194-314)
    resourcesInBuildingIndex,  \* the catalog slice, as emails
    pcFetch,        \* fetch task: "loop" | "items" | "do" | "done"
    fetchStart,     \* its local start
    fetchEnd,       \* its local end
    fetchI,         \* its local i
    reqItems,       \* req.Items being built
    requests,       \* history: the Items of the free/busy requests sent
    fetched,        \* emails with an entry in the freeBusy map
    pcSort,         \* main: "events" | "sort" | "lookup" | "wait" | "joined"
    sortI,          \* the insertion sort's i
    sortJ,          \* the insertion sort's j
    raced           \* history: main wrote the catalog while the fetch task ran

batchVars == <<numValues, valCap, values, valuesClosed, produced, pcProd, batch,
               pcUp, retAt, received, emitted, batchesClosed, pcMain, pcCons,
               consumed, biggestBatch>>

mapVars == <<intervals, data, mapPc, addItr, addVal, addIdx, ivShifted,
             dataShifted, covQuery, covResult, added>>

assignVars == <<catalog, freeBusy, roomsImGoingTo, prefFloor, prefSection, dryRun,
                evIdx, fatal, booked, evFlags, writes>>

callVars == <<callOp, callArgs, callResult>>

fetchVars == <<resourcesInBuildingIndex, pcFetch, fetchStart, fetchEnd, fetchI,
               reqItems, requests, fetched, pcSort, sortI, sortJ, raced>>

vars == <<batchVars, mapVars, assignVars, callVars, fetchVars>>

nonBatchVars == <<mapVars, assignVars, callVars, fetchVars>>
nonMapVars == <<batchVars, assignVars, callVars, fetchVars>>
nonAssignVars == <<batchVars, mapVars, callVars, fetchVars>>
nonCallVars == <<batchVars, mapVars, assignVars, fetchVars>>
nonFetchVars == <<batchVars, mapVars, assignVars, callVars>>

\* ------------------------------------------------------------------ bounds
MaxValues == 5
MaxCap == 3
MaxTime == 2
MaxAdds == 3
MaxInstant == 3
MaxFloor == 3
MaxSection == 2
MaxHits == 6
MaxAttendees == 2
MaxCatalog == 3

\* ------------------------------------------------------------- helpers
RECURSIVE Flatten(_)
Flatten(ss) == IF ss = <<>> THEN <<>> ELSE Head(ss) \o Flatten(Tail(ss))

Batches(es) == [k \in 1..Len(es) |-> es[k].b]

UpTo(n) == [k \in 1..n |-> k]


\* ====================================================================
\* Initial states of the parts
\* ====================================================================

NoInterval == [Start |-> 0, End |-> 0]

\* An empty Map (the zero value of interval.Map), no call in flight.
MapStart ==
    /\ intervals = <<>>
    /\ data = <<>>
    /\ mapPc = "idle"
    /\ addItr = NoInterval
    /\ addVal = 0
    /\ addIdx = 0
    /\ ivShifted = FALSE
    /\ dataShifted = FALSE
    /\ covQuery = <<>>
    /\ covResult = <<>>
    /\ added = <<>>

\* No function call is being looked at.
CallIdle ==
    /\ callOp = ""
    /\ callArgs = <<>>
    /\ callResult = <<>>

\* The state when the fetch task is started (line 197) on the catalog cat.
FetchStart(cat) ==
    /\ resourcesInBuildingIndex = cat
    /\ pcFetch = "loop"
    /\ fetchStart = 0
    /\ fetchEnd = 0
    /\ fetchI = 0
    /\ reqItems = <<>>
    /\ requests = <<>>
    /\ fetched = {}
    /\ pcSort = "events"
    /\ sortI = 0
    /\ sortJ = 0
    /\ raced = FALSE

FetchIdle == FetchStart(<<>>)

\* A *directory.CalendarResource: nil, or a room with its ResourceEmail,
\* FloorName and FloorSection (both numerals).
Nil == [nil |-> TRUE, email |-> 0, floor |-> 0, section |-> 0]
Room(e, f, s) == [nil |-> FALSE, email |-> e, floor |-> f, section |-> s]

\* The rooms of the building, in email order: F1-S1, F1-S2, F2-S1.
Rooms == <<Room(1, 1, 1), Room(2, 1, 2), Room(3, 2, 1)>>

\* eventsImGoingTo, ordered by start time: [Start, End) of each event.
\* Events 1 and 2 touch, events 2 and 3 overlap.
Events == <<[Start |-> 0, End |-> 2], [Start |-> 2, End |-> 4], [Start |-> 3, End |-> 5]>>

\* Busy periods a free/busy calendar may hold: one inside event 2 only (it ends
\* where event 3 starts and starts where event 1 ends), one across all events.
BusySlots == {[Start |-> 2, End |-> 3], [Start |-> 1, End |-> 5]}

\* -floor and -section: unset (0) or set.
Prefs == {<<0, 0>>, <<0, 1>>, <<2, 1>>}

NoRooms == [k \in 1..Len(Events) |-> Nil]

\* The state when the scan of line 316 starts: n catalog rooms, the free/busy
\* map fb, the rooms rs found for the events (lines 279-296), the flags.
AssignStart(n, fb, rs, pref, dry) ==
    /\ catalog = SubSeq(Rooms, 1, n)
    /\ freeBusy = fb
    /\ roomsImGoingTo = rs
    /\ prefFloor = pref[1]
    /\ prefSection = pref[2]
    /\ dryRun = dry
    /\ evIdx = 1
    /\ fatal = FALSE
    /\ booked = NoRooms
    /\ evFlags = <<>>
    /\ writes = <<>>

AssignIdle == AssignStart(0, <<>>, NoRooms, <<0, 0>>, FALSE)

\* ====================================================================
\* batch.Up
\* ====================================================================

\* `batch = append(batch, v)` (lines 243 and 254)
ReplaceValue(b, v) == <<v>>
PrependValue(b, v) == <<v>> \o b
AppendValue(b, v) == Append(b, v)

\* `if len(batch) > 0` guarding the final send when values is closed (line 238)
AlwaysFinalSend(b) == TRUE
NeverFinalSend(b) == FALSE
FinalSendNeeded(b) == Len(b) > 0

\* `if len(batch) > 0 { break batch }` in the default case (line 246)
NeverBreakOnIdle(b) == FALSE
BreakOnIdle(b) == Len(b) > 0

\* `return` (lines 241 and 252): Up touches no channel's open/closed state
UpReturnClosing(line) ==
    /\ pcUp' = "done"
    /\ retAt' = line
    /\ batchesClosed' = TRUE
    /\ valuesClosed' = valuesClosed
UpReturn(line) ==
    /\ pcUp' = "done"
    /\ retAt' = line
    /\ UNCHANGED <<batchesClosed, valuesClosed>>

\* A send on the unbuffered batches channel completes together with the
\* consumer's receive in `for bs := range batches`.
SendBatch(line) ==
    /\ pcCons = "recv"
    /\ ~batchesClosed
    /\ emitted' = Append(emitted, [b |-> batch, line |-> line])
    /\ consumed' = Append(consumed, batch)
    /\ pcCons' = "body"

\* The select of lines 235-256: a non-blocking receive from values.
UpSelect ==
    /\ pcUp = "select"
    /\ IF values # <<>>
       THEN \* case v, ok = <-values with ok: lines 243-244
            /\ batch' = AppendValue(batch, Head(values))
            /\ received' = Append(received, Head(values))
            /\ values' = Tail(values)
            /\ UNCHANGED <<pcUp, retAt, batchesClosed, valuesClosed>>
       ELSE IF valuesClosed
       THEN \* case v, ok = <-values with !ok: lines 237-242
            /\ IF FinalSendNeeded(batch)
               THEN /\ pcUp' = "sendfinal"
                    /\ UNCHANGED <<retAt, batchesClosed, valuesClosed>>
               ELSE UpReturn(241)
            /\ UNCHANGED <<batch, received, values>>
       ELSE \* default: lines 245-249
            /\ pcUp' = IF BreakOnIdle(batch) THEN "send" ELSE "recv"
            /\ UNCHANGED <<batch, received, values, retAt, batchesClosed, valuesClosed>>
    /\ UNCHANGED nonBatchVars
    /\ UNCHANGED <<numValues, valCap, produced, pcProd, emitted, pcMain, pcCons,
                   consumed, biggestBatch>>

\* The blocking receive of lines 250-255.
UpBlockingRecv ==
    /\ pcUp = "recv"
    /\ \/ /\ values # <<>>
          /\ batch' = AppendValue(batch, Head(values))
          /\ received' = Append(received, Head(values))
          /\ values' = Tail(values)
          /\ pcUp' = "select"
          /\ UNCHANGED <<retAt, batchesClosed, valuesClosed>>
       \/ /\ values = <<>>
          /\ valuesClosed
          /\ UpReturn(252)
          /\ UNCHANGED <<batch, received, values>>
    /\ UNCHANGED nonBatchVars
    /\ UNCHANGED <<numValues, valCap, produced, pcProd, emitted, pcMain, pcCons,
                   consumed, biggestBatch>>

\* `batches <- batch` after the inner loop (line 258), then the next batch.
UpSend ==
    /\ pcUp = "send"
    /\ SendBatch(258)
    /\ batch' = <<>>
    /\ pcUp' = "select"
    /\ UNCHANGED nonBatchVars
    /\ UNCHANGED <<numValues, valCap, values, valuesClosed, produced, pcProd,
                   retAt, received, batchesClosed, pcMain, biggestBatch>>

\* `batches <- batch` when values is closed (line 239), then return (line 241).
UpSendFinal ==
    /\ pcUp = "sendfinal"
    /\ SendBatch(239)
    /\ UpReturn(241)
    /\ UNCHANGED nonBatchVars
    /\ UNCHANGED <<numValues, valCap, values, produced, pcProd, batch,
                   received, pcMain, biggestBatch>>

\* Producer: `v <- i` while there are values left (batch_test.go line 22,
\* foreach.go line 99).
ProducerSend ==
    /\ pcProd = "send"
    /\ produced < numValues
    /\ Len(values) < valCap
    /\ values' = Append(values, produced + 1)
    /\ produced' = produced + 1
    /\ UNCHANGED nonBatchVars
    /\ UNCHANGED <<numValues, valCap, valuesClosed, pcProd, batch, pcUp, retAt,
                   received, emitted, batchesClosed, pcMain, pcCons, consumed,
                   biggestBatch>>

\* Producer: deferred close(values) and wg.Done().
ProducerCloseForgotten ==
    /\ pcProd = "send"
    /\ produced = numValues
    /\ pcProd' = "done"
    /\ UNCHANGED nonBatchVars
    /\ UNCHANGED <<numValues, valCap, values, valuesClosed, produced, batch, pcUp,
                   retAt, received, emitted, batchesClosed, pcMain, pcCons, consumed,
                   biggestBatch>>
ProducerClose ==
    /\ pcProd = "send"
    /\ produced = numValues
    /\ valuesClosed' = TRUE
    /\ pcProd' = "done"
    /\ UNCHANGED nonBatchVars
    /\ UNCHANGED <<numValues, valCap, values, produced, batch, pcUp, retAt,
                   received, emitted, batchesClosed, pcMain, pcCons, consumed,
                   biggestBatch>>

\* Consumer: the body of `for b := range b` (batch_test.go lines 31-34).
ConsumerBody ==
    /\ pcCons = "body"
    /\ biggestBatch' = IF Len(consumed[Len(consumed)]) > biggestBatch
                       THEN Len(consumed[Len(consumed)])
                       ELSE biggestBatch
    /\ pcCons' = "recv"
    /\ UNCHANGED nonBatchVars
    /\ UNCHANGED <<numValues, valCap, values, valuesClosed, produced, pcProd,
                   batch, pcUp, retAt, received, emitted, batchesClosed, pcMain,
                   consumed>>

\* Consumer: the range loop ends once batches is closed; wg.Done().
ConsumerExit ==
    /\ pcCons = "recv"
    /\ batchesClosed
    /\ pcCons' = "done"
    /\ UNCHANGED nonBatchVars
    /\ UNCHANGED <<numValues, valCap, values, valuesClosed, produced, pcProd,
                   batch, pcUp, retAt, received, emitted, batchesClosed, pcMain,
                   consumed, biggestBatch>>

\* Caller: close(batches) once Up has returned.
MainClose ==
    /\ pcMain = "up"
    /\ pcUp = "done"
    /\ batchesClosed' = TRUE
    /\ pcMain' = "wait"
    /\ UNCHANGED nonBatchVars
    /\ UNCHANGED <<numValues, valCap, values, valuesClosed, produced, pcProd,
                   batch, pcUp, retAt, received, emitted, pcCons, consumed,
                   biggestBatch>>

\* Caller: wg.Wait() returns once producer and consumer are done.
MainWait ==
    /\ pcMain = "wait"
    /\ pcProd = "done"
    /\ pcCons = "done"
    /\ pcMain' = "joined"
    /\ UNCHANGED nonBatchVars
    /\ UNCHANGED <<numValues, valCap, values, valuesClosed, produced, pcProd,
                   batch, pcUp, retAt, received, emitted, batchesClosed, pcCons,
                   consumed, biggestBatch>>

BatchStart(n, c) ==
    /\ numValues = n
    /\ valCap = c
    /\ values = <<>>
    /\ valuesClosed = FALSE
    /\ produced = 0
    /\ pcProd = "send"
    /\ batch = <<>>
    /\ pcUp = "select"
    /\ retAt = 0
    /\ received = <<>>
    /\ emitted = <<>>
    /\ batchesClosed = FALSE
    /\ pcMain = "up"
    /\ pcCons = "recv"
    /\ consumed = <<>>
    /\ biggestBatch = 0

InitBatch ==
    /\ \E n \in 0..MaxValues, c \in 1..MaxCap : BatchStart(n, c)
    /\ MapStart
    /\ CallIdle
    /\ FetchIdle
    /\ AssignIdle

UpStep == UpSelect \/ UpBlockingRecv \/ UpSend \/ UpSendFinal
ProducerStep == ProducerSend \/ ProducerClose
ConsumerStep == ConsumerBody \/ ConsumerExit
MainStep == MainClose \/ MainWait

NextBatch ==
    \/ UpSelect
    \/ UpBlockingRecv
    \/ UpSend
    \/ UpSendFinal
    \/ ProducerSend
    \/ ProducerClose
    \/ ConsumerBody
    \/ ConsumerExit
    \/ MainClose
    \/ MainWait

SpecBatch == InitBatch /\ [][NextBatch]_vars

\* The three goroutines are scheduled fairly by the Go runtime.
SpecLive ==
    /\ InitBatch
    /\ [][NextBatch]_vars
    /\ WF_vars(UpStep)
    /\ WF_vars(ProducerStep)
    /\ WF_vars(ConsumerStep)
    /\ WF_vars(MainStep)

\* ====================================================================
\* interval.Map
\* ====================================================================

Times == 0..MaxTime

\* Interval.Less (lines 14-22)
Less(i, j) ==
    \/ i.Start < j.Start
    \/ (i.Start = j.Start /\ i.End < j.End)

\* sort.Search(n, f) as called on lines 54 and 83: the standard library's binary
\* search, with f given as the sequence f(0), ..., f(n-1). Indices are 0-based.
RECURSIVE SearchLoop(_, _, _)
SearchLoop(f, i, j) ==
    IF i < j
    THEN LET h == (i + j) \div 2
         IN  IF ~f[h + 1] THEN SearchLoop(f, h + 1, j) ELSE SearchLoop(f, i, h)
    ELSE i

Search(n, f) == SearchLoop(f, 0, n)

\* Add's insertion index (lines 54-56)
AddIndexAtEnd(ivs, itr) == Len(ivs)
AddIndex(ivs, itr) ==
    Search(Len(ivs), [k \in 1..Len(ivs) |-> Less(itr, ivs[k])])

\* append a zero element, copy(s[i+1:], s[i:]), s[i] = x (lines 61-63, 68-70)
ShiftInsert(s, i, x, zero) ==
    LET grown == Append(s, zero)
        moved == [k \in 1..Len(grown) |-> IF k > i + 1 THEN grown[k - 1] ELSE grown[k]]
    IN  [moved EXCEPT ![i + 1] = x]

\* Add, lines 53-58: the interval, the index, and the start of the two tasks.
\* The k-th Add stores the value k, so a value names the call that stored it.
MapAdd(s, e) ==
    /\ mapPc = "idle"
    /\ Len(intervals) < MaxAdds
    /\ addItr' = [Start |-> s, End |-> e]
    /\ addVal' = Len(data) + 1
    /\ addIdx' = AddIndex(intervals, [Start |-> s, End |-> e])
    /\ mapPc' = "adding"
    /\ ivShifted' = FALSE
    /\ dataShifted' = FALSE
    /\ covQuery' = <<>>
    /\ covResult' = <<>>
    /\ added' = Append(added, [Start |-> s, End |-> e])
    /\ UNCHANGED <<intervals, data>>
    /\ UNCHANGED nonMapVars

\* Add, lines 59-64: the task shifting im.intervals.
MapShiftIntervals ==
    /\ mapPc = "adding"
    /\ ~ivShifted
    /\ intervals' = ShiftInsert(intervals, addIdx, addItr, NoInterval)
    /\ ivShifted' = TRUE
    /\ UNCHANGED <<data, mapPc, addItr, addVal, addIdx, dataShifted, covQuery, covResult,
                   added>>
    /\ UNCHANGED nonMapVars

\* Add, lines 65-71: the task shifting im.data.
MapShiftDataAtEnd ==
    /\ mapPc = "adding"
    /\ ~dataShifted
    /\ data' = Append(data, addVal)
    /\ dataShifted' = TRUE
    /\ UNCHANGED <<intervals, mapPc, addItr, addVal, addIdx, ivShifted, covQuery, covResult,
                   added>>
    /\ UNCHANGED nonMapVars
MapShiftData ==
    /\ mapPc = "adding"
    /\ ~dataShifted
    /\ data' = ShiftInsert(data, addIdx, addVal, 0)
    /\ dataShifted' = TRUE
    /\ UNCHANGED <<intervals, mapPc, addItr, addVal, addIdx, ivShifted, covQuery, covResult,
                   added>>
    /\ UNCHANGED nonMapVars

\* Add, line 72: wg.Wait() returns once both tasks are done.
MapAddWait ==
    /\ mapPc = "adding"
    /\ ivShifted
    /\ dataShifted
    /\ mapPc' = "idle"
    /\ UNCHANGED <<intervals, data, addItr, addVal, addIdx, ivShifted, dataShifted,
                   covQuery, covResult, added>>
    /\ UNCHANGED nonMapVars

\* okFunc of Covering (lines 77-82), for the 0-based index i
OkFunc(ivs, i, s, e) == ~(s < ivs[i + 1].Start) /\ ~(ivs[i + 1].End < e)

\* The loop of lines 88-93.
RECURSIVE CoverScan(_, _, _, _, _, _)
CoverScan(ivs, dat, i, s, e, ret) ==
    IF i < Len(ivs) /\ OkFunc(ivs, i, s, e)
    THEN CoverScan(ivs, dat, i + 1, s, e, Append(ret, dat[i + 1]))
    ELSE ret

\* Map.Covering (lines 76-95); nil and the empty slice are both <<>>.
Covering(ivs, dat, s, e) ==
    LET i == Search(Len(ivs), [k \in 1..Len(ivs) |-> OkFunc(ivs, k - 1, s, e)])
    IN  IF i = Len(ivs) THEN <<>> ELSE CoverScan(ivs, dat, i, s, e, <<>>)

\* A call of Covering while no Add is in flight.
MapCovering(s, e) ==
    /\ mapPc = "idle"
    /\ covQuery' = <<s, e>>
    /\ covResult' = Covering(intervals, data, s, e)
    /\ UNCHANGED <<intervals, data, mapPc, addItr, addVal, addIdx, ivShifted, dataShifted,
                   added>>
    /\ UNCHANGED nonMapVars

InitMap ==
    /\ BatchStart(0, 1)
    /\ MapStart
    /\ CallIdle
    /\ FetchIdle
    /\ AssignIdle

NextMap ==
    \/ \E s \in Times, e \in Times : MapAdd(s, e)
    \/ MapShiftIntervals
    \/ MapShiftData
    \/ MapAddWait
    \/ \E s \in Times, e \in Times : MapCovering(s, e)

SpecMap == InitMap /\ [][NextMap]_vars

\* --------------------------------------------------------------------
\* Properties of interval.Map
\* --------------------------------------------------------------------

Range(s) == {s[k] : k \in 1..Len(s)}

\* C7: a Covering(s, e) call returns exactly the values of the stored intervals
\* with interval.Start <= s and e <= interval.End, each once.
C7_CoveringExact ==
    covQuery # <<>> =>
        /\ Range(covResult) =
              {data[k] : k \in {j \in 1..Len(intervals) :
                                   /\ intervals[j].Start <= covQuery[1]
                                   /\ covQuery[2] <= intervals[j].End}}
        /\ \A j, k \in 1..Len(covResult) : covResult[j] = covResult[k] => j = k

\* C8: when no Add is in flight, no stored interval is Less than the one stored
\* before it.
C8_SortedAfterAdd ==
    mapPc = "idle" =>
        \A k \in 1..(Len(intervals) - 1) :
            ~(\/ intervals[k + 1].Start < intervals[k].Start
              \/ /\ intervals[k + 1].Start = intervals[k].Start
                 /\ intervals[k + 1].End < intervals[k].End)

\* Three Adds: two equal intervals, a third with the same Start and a later End,
\* and at least one of them inserted before an interval stored earlier.
C8_Witness ==
    /\ mapPc = "idle"
    /\ Len(intervals) = 3
    /\ intervals[1] = intervals[2]
    /\ intervals[2].Start = intervals[3].Start
    /\ intervals[2].End < intervals[3].End
    /\ data # <<1, 2, 3>>


\* ====================================================================
\* The assignment pass of main (main.go lines 316-444)
\* ====================================================================

\* math.MaxInt (its value on a 32-bit build; it is only ever compared)
MaxInt == 2147483647

\* abs (lines 486-491)
abs(x) == IF x < 0 THEN -x ELSE x

\* min (lines 493-498)
min(x, y) == IF x < y THEN x ELSE y

\* The constants of distance (lines 455-461)
subsequentChangeOfSection == 5
firstChangeOfSection == 5
subsequentChangeOfFloor == 10
firstChangeOfFloor == firstChangeOfSection + subsequentChangeOfFloor

\* distance (lines 450-475)
distanceFlatFloors(r1, r2) ==
    IF r1.nil \/ r2.nil
    THEN MaxInt
    ELSE (IF r1.floor # r2.floor THEN firstChangeOfFloor ELSE 0)
         + (IF r1.section # r2.section
            THEN firstChangeOfSection
                 + (abs(r1.section - r2.section) - 1) * subsequentChangeOfSection
            ELSE 0)
distance(r1, r2) ==
    IF r1.nil \/ r2.nil
    THEN MaxInt
    ELSE (IF r1.floor # r2.floor
          THEN firstChangeOfFloor + (abs(r1.floor - r2.floor) - 1) * subsequentChangeOfFloor
          ELSE 0)
         + (IF r1.section # r2.section
            THEN firstChangeOfSection
                 + (abs(r1.section - r2.section) - 1) * subsequentChangeOfSection
            ELSE 0)

\* Interval.Overlaps (interval.go lines 24-29)
OverlapsClosedEnd(i, j) == j.Start <= i.End /\ i.Start < j.End
Overlaps(i, j) == j.Start < i.End /\ i.Start < j.End

\* prevRoom and nextRoom of the event at position i (lines 321-327)
PrevRoom(i) == IF i > 1 THEN roomsImGoingTo[i - 1] ELSE Nil
NextRoom(i) ==
    IF i < Len(roomsImGoingTo) /\ ~roomsImGoingTo[i + 1].nil
    THEN roomsImGoingTo[i + 1]
    ELSE Nil

\* prefLoc (lines 342-345)
PrefLoc == Room(0, prefFloor, prefSection)

\* The comparator's exit (lines 337-341): no neighbour and no preference.
FatalConfig(prev, next) ==
    /\ prev.nil
    /\ next.nil
    /\ (prefFloor = 0 \/ prefSection = 0)

\* sort.Slice calls the comparator only for a slice of two or more elements.
ComparatorRuns == Len(catalog) >= 2

\* The key the comparator orders by (lines 346-354)
RankKey(prev, next, room) ==
    IF prev.nil /\ next.nil
    THEN distance(PrefLoc, room)
    ELSE min(distance(prev, room), distance(next, room))

\* The orders sort.Slice may leave idxs in (lines 332-355): every permutation
\* of the catalog positions in which no element's key is less than the key of
\* an element before it. The order of equal keys is the library's choice.
RankingsUnsorted(prev, next) == Permutations(1..Len(catalog))
Rankings(prev, next) ==
    {p \in Permutations(1..Len(catalog)) :
        \A a, b \in 1..Len(catalog) :
            a < b => ~(RankKey(prev, next, catalog[p[b]]) < RankKey(prev, next, catalog[p[a]]))}

\* The test of lines 369-380: free/busy data exists and no busy period
\* overlaps the event.
FreeForIgnoringBusy(room, ev) == room.email \in DOMAIN freeBusy
FreeForMissingIsFree(room, ev) ==
    room.email \in DOMAIN freeBusy =>
        \A busy \in freeBusy[room.email] : ~Overlaps(Events[ev], busy)
FreeFor(room, ev) ==
    /\ room.email \in DOMAIN freeBusy
    /\ \A busy \in freeBusy[room.email] : ~Overlaps(Events[ev], busy)

\* The walk of lines 366-381 over the ranked idxs: the first free room, or Nil.
RECURSIVE Walk(_, _, _)
Walk(perm, k, ev) ==
    IF k > Len(perm)
    THEN Nil
    ELSE IF FreeFor(catalog[perm[k]], ev)
         THEN catalog[perm[k]]
         ELSE Walk(perm, k + 1, ev)

\* The calendar calls of lines 383-433 for event i and the room found.
BookingCallsPatchingTruncated(i, room, omitted, tagged) ==
    IF dryRun
    THEN <<>>
    ELSE IF omitted \/ tagged
         THEN <<[op |-> "insertHold", event |-> i, room |-> room.email],
                [op |-> "patchMarker", event |-> i, room |-> 0]>>
         ELSE <<[op |-> "patchAttendees", event |-> i, room |-> room.email]>>
BookingCalls(i, room, omitted, tagged) ==
    IF dryRun
    THEN <<>>
    ELSE IF omitted \/ tagged
         THEN <<[op |-> "insertHold", event |-> i, room |-> room.email]>>
              \o (IF ~omitted
                  THEN <<[op |-> "patchMarker", event |-> i, room |-> 0]>>
                  ELSE <<>>)
         ELSE <<[op |-> "patchAttendees", event |-> i, room |-> room.email]>>

Scanning == evIdx <= Len(Events) /\ ~fatal

\* Lines 318-320: the event already has a room.
AssignSkip ==
    /\ Scanning
    /\ ~roomsImGoingTo[evIdx].nil
    /\ evIdx' = evIdx + 1
    /\ UNCHANGED <<catalog, freeBusy, roomsImGoingTo, prefFloor, prefSection, dryRun,
                   fatal, booked, evFlags, writes>>
    /\ UNCHANGED nonAssignVars

\* Lines 336-341: the comparator finds nothing to rank by and exits.
AssignFatal ==
    /\ Scanning
    /\ roomsImGoingTo[evIdx].nil
    /\ FatalConfig(PrevRoom(evIdx), NextRoom(evIdx))
    /\ ComparatorRuns
    /\ fatal' = TRUE
    /\ UNCHANGED <<catalog, freeBusy, roomsImGoingTo, prefFloor, prefSection, dryRun,
                   evIdx, booked, evFlags, writes>>
    /\ UNCHANGED nonAssignVars

\* Lines 332-436: rank, walk, and book the first free room.
AssignBook(perm, omitted, tagged) ==
    /\ Scanning
    /\ roomsImGoingTo[evIdx].nil
    /\ ~(FatalConfig(PrevRoom(evIdx), NextRoom(evIdx)) /\ ComparatorRuns)
    /\ perm \in Rankings(PrevRoom(evIdx), NextRoom(evIdx))
    /\ LET room == Walk(perm, 1, evIdx)
       IN  /\ ~room.nil
           /\ writes' = writes \o BookingCalls(evIdx, room, omitted, tagged)
           /\ booked' = [booked EXCEPT ![evIdx] = room]
           /\ evFlags' = Append(evFlags, [event |-> evIdx, omitted |-> omitted,
                                          tagged |-> tagged])
    /\ evIdx' = evIdx + 1
    /\ UNCHANGED <<catalog, freeBusy, roomsImGoingTo, prefFloor, prefSection, dryRun,
                   fatal>>
    /\ UNCHANGED nonAssignVars

\* Lines 332-436 when the walk ends without a free room.
AssignExhausted ==
    /\ Scanning
    /\ roomsImGoingTo[evIdx].nil
    /\ ~(FatalConfig(PrevRoom(evIdx), NextRoom(evIdx)) /\ ComparatorRuns)
    /\ \E perm \in Rankings(PrevRoom(evIdx), NextRoom(evIdx)) : Walk(perm, 1, evIdx).nil
    /\ evIdx' = evIdx + 1
    /\ UNCHANGED <<catalog, freeBusy, roomsImGoingTo, prefFloor, prefSection, dryRun,
                   fatal, booked, evFlags, writes>>
    /\ UNCHANGED nonAssignVars

InitAssign ==
    /\ BatchStart(0, 1)
    /\ MapStart
    /\ CallIdle
    /\ FetchIdle
    /\ \E n \in 0..Len(Rooms), dry \in BOOLEAN, pref \in Prefs :
         \E S \in SUBSET (1..n) :
            \E fb \in [S -> SUBSET BusySlots] :
               \E rs \in [1..Len(Events) -> {Nil} \cup {Rooms[k] : k \in 1..n}] :
                  AssignStart(n, fb, rs, pref, dry)

NextAssign ==
    \/ AssignSkip
    \/ AssignFatal
    \/ \E perm \in Rankings(PrevRoom(evIdx), NextRoom(evIdx)) :
          \E omitted \in BOOLEAN, tagged \in BOOLEAN : AssignBook(perm, omitted, tagged)
    \/ AssignExhausted

SpecAssign == InitAssign /\ [][NextAssign]_vars

\* --------------------------------------------------------------------
\* Properties of the assignment pass
\* --------------------------------------------------------------------

HasData(email) == email \in DOMAIN freeBusy

BusyDuring(email, ev) ==
    /\ HasData(email)
    /\ \E b \in freeBusy[email] : b.Start < Events[ev].End /\ Events[ev].Start < b.End

FreeDuring(email, ev) == HasData(email) /\ ~BusyDuring(email, ev)

WritesFor(ev) == {k \in 1..Len(writes) : writes[k].event = ev}

\* The scenario of three events and the rooms F1-S1, F1-S2, F2-S1: event 1 is
\* in F1-S1, event 2 has no room, F1-S2 is free during event 2, F2-S1 is busy.
C9_Scenario ==
    /\ catalog = Rooms
    /\ Len(Events) = 3
    /\ roomsImGoingTo[1] = Rooms[1]
    /\ roomsImGoingTo[2].nil
    /\ FreeDuring(Rooms[2].email, 2)
    /\ BusyDuring(Rooms[3].email, 2)

\* C9 as stated: in the scenario, once the scan has passed event 2, event 2 has
\* been given room F1-S2.
C9_AssignsF1S2 ==
    (C9_Scenario /\ evIdx > 2) => booked[2] = Rooms[2]

\* C9: in the scenario, when room F1-S1 is itself not free during event 2 (busy,
\* or without free/busy data), once the scan has passed event 2, event 2 has
\* been given room F1-S2, and unless this is a dry run a calendar call for
\* event 2 names that room.
C9_AssignsF1S2UnlessF1S1Free ==
    (C9_Scenario /\ ~FreeDuring(Rooms[1].email, 2) /\ evIdx > 2) =>
        /\ booked[2] = Rooms[2]
        /\ ~dryRun => \E k \in WritesFor(2) : writes[k].room = Rooms[2].email

\* Event 3 is in the busy room F2-S1, so both neighbours of event 2 have rooms.
C9_Witness ==
    /\ C9_Scenario
    /\ ~FreeDuring(Rooms[1].email, 2)
    /\ roomsImGoingTo[3] = Rooms[3]
    /\ evIdx > 2
    /\ ~dryRun
    /\ booked[2] = Rooms[2]

\* No catalog room is free for the event: each is busy or has no data.
Unavailable(ev) == \A k \in 1..Len(catalog) : ~FreeDuring(catalog[k].email, ev)

\* The step of the scan over an event without a room leaves every event's room
\* and the calls made as they were, stops nothing and moves to the next event.
LeftAlone ==
    /\ ~fatal'
    /\ evIdx' = evIdx + 1
    /\ booked' = booked
    /\ writes' = writes
    /\ roomsImGoingTo' = roomsImGoingTo
    /\ freeBusy' = freeBusy

\* C10 as stated: the step of the scan over a roomless event whose candidates
\* are all busy or without data always leaves everything alone and goes on.
C10_ExhaustedLeftAlone ==
    [][(/\ Scanning
        /\ roomsImGoingTo[evIdx].nil
        /\ Unavailable(evIdx)
        /\ assignVars' # assignVars) => LeftAlone]_vars

\* The ranking of the event at the scan position stops the run: it has no
\* neighbour room, -floor or -section is unset, and there are rooms to compare.
RankingStops ==
    /\ evIdx = 1 \/ roomsImGoingTo[evIdx - 1].nil
    /\ evIdx = Len(Events) \/ roomsImGoingTo[evIdx + 1].nil
    /\ prefFloor = 0 \/ prefSection = 0
    /\ Len(catalog) >= 2

\* C10: unless the ranking stops the run with the configuration error, the
\* step of the scan over a roomless event whose candidates are all busy or
\* without data leaves everything alone and goes on to the next event; and an
\* event so passed has no room and no calendar call.
C10_ExhaustedLeftAloneUnlessFatal ==
    /\ [][(/\ Scanning
           /\ roomsImGoingTo[evIdx].nil
           /\ Unavailable(evIdx)
           /\ ~RankingStops
           /\ assignVars' # assignVars) => LeftAlone]_vars
    /\ [](\A ev \in 1..Len(Events) :
            (ev < evIdx /\ roomsImGoingTo[ev].nil /\ Unavailable(ev)) =>
                (booked[ev].nil /\ WritesFor(ev) = {}))

\* Event 2 found every room busy or without data; events 1 and 3 were booked.
C10_Witness ==
    /\ evIdx = Len(Events) + 1
    /\ ~fatal
    /\ ~dryRun
    /\ Len(catalog) = 3
    /\ roomsImGoingTo[2].nil
    /\ Unavailable(2)
    /\ \E k \in 1..3 : ~HasData(catalog[k].email)
    /\ \E k \in 1..3 : BusyDuring(catalog[k].email, 2)
    /\ booked[2].nil
    /\ ~booked[1].nil
    /\ ~booked[3].nil
    /\ WritesFor(1) # {}
    /\ WritesFor(3) # {}


\* "Items are produced strictly faster than they are consumed from the output":
\* the consumer finishes handling a batch only once the producer cannot go on
\* (the values buffer is full, or everything was sent and values is closed).
ProducerStalled ==
    \/ pcProd = "done"
    \/ /\ pcProd = "send"
       /\ produced < numValues
       /\ Len(values) = valCap

SlowConsumerBody == ProducerStalled /\ ConsumerBody

\* TestBatch's shape: many values, a values buffer of more than one slot.
InitFastProducer ==
    /\ \E n \in 4..MaxValues, c \in 2..MaxCap : BatchStart(n, c)
    /\ MapStart
    /\ CallIdle
    /\ FetchIdle
    /\ AssignIdle

NextFastProducer ==
    \/ UpSelect
    \/ UpBlockingRecv
    \/ UpSend
    \/ UpSendFinal
    \/ ProducerSend
    \/ ProducerClose
    \/ SlowConsumerBody
    \/ ConsumerExit
    \/ MainClose
    \/ MainWait

SpecFastProducer == InitFastProducer /\ [][NextFastProducer]_vars

\* --------------------------------------------------------------------
\* Properties of batch.Up
\* --------------------------------------------------------------------

\* C1: the concatenation of the batches sent on batches, in send order,
\* followed by the batch being gathered, is the sequence of values received
\* from values; once Up has returned nothing is pending, so the concatenation
\* alone is the received sequence. The consumer receives the batches as sent.
C1_OrderPreserved ==
    /\ pcUp # "done" => Flatten(Batches(emitted)) \o batch = received
    /\ pcUp = "done" => Flatten(Batches(emitted)) = received
    /\ consumed = Batches(emitted)

C1_Witness ==
    /\ pcUp = "done"
    /\ Len(emitted) >= 2
    /\ \E k \in 1..Len(emitted) : Len(emitted[k].b) >= 2
    /\ Len(received) >= 4

\* C2: every batch sent on batches is non-empty, also when values is closed
\* while the current batch is empty.
C2_BatchesNonEmpty == \A k \in 1..Len(emitted) : Len(emitted[k].b) > 0

\* Up saw values closed at the select with an empty batch, after earlier batches.
C2_Witness ==
    /\ pcUp = "done"
    /\ retAt = 241
    /\ emitted # <<>>
    /\ emitted[Len(emitted)].line = 258

\* C3: with every goroutine scheduled fairly Up eventually returns, and it has
\* returned only when values is closed and drained, every value the producer
\* sent was received, and every received value went out in a batch.
C3_Terminates ==
    /\ <>(pcUp = "done")
    /\ [](pcUp = "done" =>
            /\ valuesClosed
            /\ values = <<>>
            /\ received = UpTo(numValues)
            /\ Flatten(Batches(emitted)) = received)

\* Up returned after sending a final partial batch.
C3_Witness ==
    /\ pcUp = "done"
    /\ numValues >= 2
    /\ emitted # <<>>
    /\ emitted[Len(emitted)].line = 239

\* C4: Up waits in the blocking receive only with an empty batch; at the select
\* with a non-empty batch and no value ready on values, Up's step goes to a send
\* of the batch (line 258, or line 239 when values is closed) with the batch
\* unchanged, and its step from there sends exactly that batch.
C4_BlocksOnlyWhenEmpty ==
    /\ [](pcUp = "recv" => batch = <<>>)
    /\ [](pcUp \in {"send", "sendfinal"} => batch # <<>>)
    /\ [][(/\ pcUp = "select"
           /\ batch # <<>>
           /\ values = <<>>
           /\ pcUp' # pcUp) =>
            (/\ pcUp' = (IF valuesClosed THEN "sendfinal" ELSE "send")
             /\ batch' = batch)]_vars
    /\ [][(pcUp \in {"send", "sendfinal"} /\ pcUp' # pcUp) =>
            /\ Len(emitted') = Len(emitted) + 1
            /\ emitted'[Len(emitted')].b = batch]_vars

\* Up is about to send a batch while the producer still has values to send.
C4_Witness ==
    /\ pcUp = "send"
    /\ batch # <<>>
    /\ values = <<>>
    /\ ~valuesClosed
    /\ produced < numValues

C6_UpClosesNothing ==
    /\ [][batchesClosed' # batchesClosed =>
            (pcMain = "up" /\ pcUp = "done" /\ pcMain' = "wait")]_vars
    /\ [][valuesClosed' # valuesClosed =>
            (pcProd = "send" /\ pcProd' = "done")]_vars
    /\ []((pcUp = "done" /\ pcMain = "up") => ~batchesClosed)
    /\ [](pcCons = "done" => (batchesClosed /\ pcMain # "up"))

\* Up has returned, batches is still open and the consumer still waits on it.
C6_Witness ==
    /\ pcUp = "done"
    /\ pcMain = "up"
    /\ ~batchesClosed
    /\ pcCons = "recv"
    /\ emitted # <<>>

\* --------------------------------------------------------------------
\* The building-ingestion pipeline of Buildings (foreach.go lines 88-125): the
\* same producer / Up / consumer / caller shape, the values being the
\* enumerated buildings in enumeration order.
\* --------------------------------------------------------------------

\* The buildings index-written so far (lines 110-118): the batches whose
\* idx.Batch call has completed, in order.
IndexWritten ==
    Flatten(SubSeq(consumed, 1,
                   IF pcCons = "body" THEN Len(consumed) - 1 ELSE Len(consumed)))

\* C11: under fair scheduling the pipeline reaches the return of wg.Wait; no
\* reachable state before it is stuck; the buildings index-written are at all
\* times a prefix of the enumeration, and after the join they are all of it,
\* with both tasks done.
C11_PipelineCompletes ==
    /\ <>(pcMain = "joined")
    /\ [](pcMain = "joined" \/ ENABLED NextBatch)
    /\ [](IndexWritten = UpTo(Len(IndexWritten)))
    /\ [](pcMain = "joined" =>
            /\ pcProd = "done"
            /\ pcCons = "done"
            /\ IndexWritten = UpTo(numValues))

\* More buildings than the buffer holds, written in several batches.
C11_Witness ==
    /\ pcMain = "joined"
    /\ numValues > valCap
    /\ Len(consumed) >= 2
    /\ IndexWritten = UpTo(numValues)

\* ====================================================================
\* Single calls of the program's functions
\* ====================================================================

\* The idle start of the other parts.
PartsIdle ==
    /\ BatchStart(0, 1)
    /\ MapStart
    /\ AssignIdle
    /\ FetchIdle

\* The call has its arguments and has not returned.
Calling(op) == callOp = op /\ callResult = <<>>

\* The call returns these results.
Return(rs) ==
    /\ callResult' = rs
    /\ UNCHANGED <<callOp, callArgs>>
    /\ UNCHANGED nonCallVars

\* -------------------------------------------------- Interval.Overlaps
\* Instants are integers; an Interval is any pair of them, Start after End
\* included (nothing in interval.go rejects it).
Instants == 0..MaxInstant
AllIntervals == [Start : Instants, End : Instants]

InitOverlaps ==
    /\ PartsIdle
    /\ callOp = "Overlaps"
    /\ callArgs \in AllIntervals \X AllIntervals
    /\ callResult = <<>>

\* a.Overlaps(b), b.Overlaps(a) and a.Overlaps(a) on the chosen a and b.
OverlapsCall ==
    /\ Calling("Overlaps")
    /\ Return(<<Overlaps(callArgs[1], callArgs[2]),
                Overlaps(callArgs[2], callArgs[1]),
                Overlaps(callArgs[1], callArgs[1])>>)

NextOverlaps == OverlapsCall

SpecOverlaps == InitOverlaps /\ [][NextOverlaps]_vars

\* C12: a.Overlaps(b) and b.Overlaps(a) return the same, and a.Overlaps(a)
\* returns true whenever a.Start is before a.End; a and b range over all
\* intervals, those with Start after End included.
C12_OverlapsSymmetric ==
    (callOp = "Overlaps" /\ callResult # <<>>) =>
        /\ callResult[1] = callResult[2]
        /\ (callArgs[1].Start < callArgs[1].End => callResult[3])

\* An interval with Start after End overlapping a proper one, both ways.
C12_Witness ==
    /\ callOp = "Overlaps"
    /\ callResult # <<>>
    /\ callArgs[1].Start > callArgs[1].End
    /\ callArgs[2].Start < callArgs[2].End
    /\ callResult[1]
    /\ callResult[2]

\* ------------------------------------------------------------ distance
\* The arguments: nil, or a resource whose FloorName and FloorSection are
\* numerals (intOrDie, lines 477-484, ends the run on anything else).
Placed == {Room(0, f, sec) : f \in 0..MaxFloor, sec \in 0..MaxSection}
MaybePlaced == Placed \cup {Nil}

InitDistance ==
    /\ PartsIdle
    /\ callOp = "distance"
    /\ callArgs \in MaybePlaced \X MaybePlaced \X MaybePlaced
    /\ callResult = <<>>

\* distance(r1, r2), distance(r2, r1), distance(r1, r1) and distance(r1, r3)
\* on the chosen r1, r2, r3.
DistanceCall ==
    /\ Calling("distance")
    /\ Return(<<distance(callArgs[1], callArgs[2]),
                distance(callArgs[2], callArgs[1]),
                distance(callArgs[1], callArgs[1]),
                distance(callArgs[1], callArgs[3])>>)

NextDistance == DistanceCall

SpecDistance == InitDistance /\ [][NextDistance]_vars

\* |x - y| = d, written without the program's abs.
Apart(x, y, d) == x - y = d \/ y - x = d

\* C13: for rooms with integer floor and section, distance(r, r) is 0 and
\* distance(r1, r2) equals distance(r2, r1); a nil argument on either side
\* gives the maximum integer; and with the sections equal, a room two floors
\* from r1 is strictly farther from it than a room one floor from r1.
C13_DistanceLaws ==
    (callOp = "distance" /\ callResult # <<>>) =>
        LET r1 == callArgs[1]
            r2 == callArgs[2]
            r3 == callArgs[3]
        IN  /\ ~r1.nil => callResult[3] = 0
            /\ callResult[1] = callResult[2]
            /\ (r1.nil \/ r2.nil) => (callResult[1] = 2147483647 /\ callResult[2] = 2147483647)
            /\ ( /\ ~r1.nil /\ ~r2.nil /\ ~r3.nil
                 /\ r1.section = r2.section
                 /\ r1.section = r3.section
                 /\ Apart(r1.floor, r2.floor, 2)
                 /\ Apart(r1.floor, r3.floor, 1) )
               => callResult[1] > callResult[4]

\* Rooms in one section, r2 two floors and r3 one floor from r1.
C13_Witness ==
    /\ callOp = "distance"
    /\ callResult # <<>>
    /\ ~callArgs[1].nil /\ ~callArgs[2].nil /\ ~callArgs[3].nil
    /\ callArgs[1].section = callArgs[2].section
    /\ callArgs[1].section = callArgs[3].section
    /\ Apart(callArgs[1].floor, callArgs[2].floor, 2)
    /\ Apart(callArgs[1].floor, callArgs[3].floor, 1)
    /\ callResult[1] = 25
    /\ callResult[4] = 15

\* ---------------------------------- confidenceInFirst, SearchBuildings
\* Scores are counted in tenths (10.0 is 100): a standard score does not
\* change when every score is multiplied by ten, and the arithmetic below is
\* exact on integers.
ScoreTenths == {10, 20, 98, 99, 100, 500}

\* results.Hits as the sequence of the hits' scores, best first (the search
\* ranks by score); the hit at rank k has ID k.  results.Total is the number
\* of hits (at most the 50 requested).
RankedHits ==
    UNION {{h \in [1..n -> ScoreTenths] : \A k \in 1..(n - 1) : h[k] >= h[k + 1]}
           : n \in 0..MaxHits}

RECURSIVE Sum(_)
Sum(f) == IF f = <<>> THEN 0 ELSE Head(f) + Sum(Tail(f))

\* minStdScore (line 173)
minStdScore == 2

\* stat.StdScore(f[1], mean, stdev) > t, for mean and stdev the sample mean
\* and the sample standard deviation (divisor n - 1) of f, and t >= 0.
\* With n = Len(f), S = Sum(f) and dev(k) = n*f[k] - S the score is
\* dev(1) / sqrt(SumSq / (n - 1)), SumSq the sum of the dev(k)^2; when all
\* scores are equal it is 0/0, not a number, and the comparison is false.
StdScoreExceeds(f, t) ==
    LET n == Len(f)
        S == Sum(f)
        dev(k) == n * f[k] - S
        SumSq == Sum([k \in 1..n |-> dev(k) * dev(k)])
    IN  /\ dev(1) > 0
        /\ dev(1) * dev(1) * (n - 1) > t * t * SumSq

\* confidenceInFirst (lines 172-185) on a non-empty slice
confidenceInFirstLoose(f) == Len(f) = 1 \/ StdScoreExceeds(f, 1)
confidenceInFirst(f) == Len(f) = 1 \/ StdScoreExceeds(f, minStdScore)

\* SearchBuildings (lines 187-206) on the hits found: the ID of the first
\* hit, or the error "<n> buildings found", or the panic of
\* confidenceInFirst on an empty slice.
SearchBuildings(hits) ==
    IF Len(hits) = 0 THEN <<"panic", 0>>
    ELSE IF confidenceInFirst(hits) THEN <<"id", 1>>
    ELSE <<"error", Len(hits)>>

InitSearch ==
    /\ PartsIdle
    /\ callOp = "SearchBuildings"
    /\ callArgs \in RankedHits
    /\ callResult = <<>>

SearchCall ==
    /\ Calling("SearchBuildings")
    /\ Return(SearchBuildings(callArgs))

NextSearch == SearchCall

SpecSearch == InitSearch /\ [][NextSearch]_vars

Searched == callOp = "SearchBuildings" /\ callResult # <<>>

\* C14 as stated: the search accepts the scores [10.0], rejects
\* [10.0, 9.9, 9.8], and accepts [50.0, 2.0, 1.0] returning the top id.
C14_AcceptsFarTopOfThree ==
    Searched =>
        /\ callArgs = <<100>> => callResult = <<"id", 1>>
        /\ callArgs = <<100, 99, 98>> => callResult[1] = "error"
        /\ callArgs = <<500, 20, 10>> => callResult = <<"id", 1>>

\* C14, amended: the search accepts the scores [10.0], rejects
\* [10.0, 9.9, 9.8] and rejects [50.0, 2.0, 1.0] as well; no list of two to
\* five scores is accepted.
C14_RejectsShortLists ==
    Searched =>
        /\ callArgs = <<100>> => callResult = <<"id", 1>>
        /\ callArgs = <<100, 99, 98>> => callResult = <<"error", 3>>
        /\ callArgs = <<500, 20, 10>> => callResult = <<"error", 3>>
        /\ Len(callArgs) \in 2..5 => callResult = <<"error", Len(callArgs)>>

\* The search on [50.0, 2.0, 1.0] has returned "3 buildings found".
C14_Witness ==
    /\ Searched
    /\ callArgs = <<500, 20, 10>>
    /\ callResult = <<"error", 3>>

\* A list of six scores whose top hit is accepted.
C14_AcceptedOfSix ==
    /\ Searched
    /\ Len(callArgs) = 6
    /\ callResult = <<"id", 1>>

\* ====================================================================
\* Properties of the assignment pass (continued)
\* ====================================================================

\* The room an event holds at this point of the scan: the one it had before
\* the scan, or else the one booked for it in this pass (Nil if neither).
HeldBy(j) ==
    IF j < 1 \/ j > Len(Events) THEN Nil
    ELSE IF ~roomsImGoingTo[j].nil THEN roomsImGoingTo[j]
    ELSE booked[j]

\* C15: when the scan is at a roomless event, the prevRoom it ranks with is
\* the room held by the event before it (pre-existing, or booked earlier in
\* this pass), and the nextRoom is the room the event after it had before the
\* scan started.
C15_PrevRoomIsHeldRoom ==
    (Scanning /\ roomsImGoingTo[evIdx].nil) =>
        /\ PrevRoom(evIdx) = HeldBy(evIdx - 1)
        /\ NextRoom(evIdx) = (IF evIdx < Len(Events) THEN roomsImGoingTo[evIdx + 1] ELSE Nil)
\* The scan has handled event ev, which had no room before the scan.
Handled(ev) == ev < evIdx /\ roomsImGoingTo[ev].nil

\* Some busy interval of the room touches the event without overlapping it:
\* it ends exactly at the event's start or starts exactly at its end.
TouchedBy(email, ev) ==
    /\ HasData(email)
    /\ \E b \in freeBusy[email] : b.End = Events[ev].Start \/ b.Start = Events[ev].End

\* C16: a room booked for an event has an entry in the free/busy map and no
\* busy interval of it overlaps the event (half-open: one that only touches
\* the event does not count), so a room without an entry is never booked; and
\* an event handled by the scan while some catalog room was free in that sense
\* has been booked a room.
C16_BookedRoomIsFree ==
    \A ev \in 1..Len(Events) :
        /\ ~booked[ev].nil =>
              /\ HasData(booked[ev].email)
              /\ \A b \in freeBusy[booked[ev].email] :
                    ~(b.Start < Events[ev].End /\ Events[ev].Start < b.End)
        /\ ( /\ Handled(ev)
             /\ \E k \in 1..Len(catalog) : FreeDuring(catalog[k].email, ev) )
           => ~booked[ev].nil

\* Event 1 is booked a room with a busy interval starting at its end, event 3
\* a room with a busy interval ending at its start, while another catalog
\* room has no free/busy entry.
C16_Witness ==
    /\ ~booked[1].nil
    /\ TouchedBy(booked[1].email, 1)
    /\ ~booked[3].nil
    /\ TouchedBy(booked[3].email, 3)
    /\ \E k \in 1..Len(catalog) : ~HasData(catalog[k].email)
\* The key of a room for event ev as the scan computes it: the smaller of its
\* distances to the event's prevRoom and nextRoom.
NearKey(room, ev) ==
    LET dp == distance(room, PrevRoom(ev))
        dn == distance(room, NextRoom(ev))
    IN  IF dp < dn THEN dp ELSE dn

\* The catalog rooms with free/busy data and no busy interval overlapping ev.
FreeRooms(ev) == {catalog[k] : k \in {j \in 1..Len(catalog) : FreeDuring(catalog[j].email, ev)}}

\* Both -floor and -section are set.
PrefConfigured == prefFloor # 0 /\ prefSection # 0

\* C17: a room booked for an event that has a prevRoom or a nextRoom is, by
\* the smaller of its distances to them, no farther than any catalog room
\* that is free for the event; a room booked for an event with neither, when
\* -floor and -section are set, is no farther from the preferred point than
\* any such room.
C17_BookedRoomIsNearest ==
    \A ev \in 1..Len(Events) :
        ~booked[ev].nil =>
            /\ (~PrevRoom(ev).nil \/ ~NextRoom(ev).nil) =>
                  \A r \in FreeRooms(ev) : NearKey(booked[ev], ev) <= NearKey(r, ev)
            /\ (PrevRoom(ev).nil /\ NextRoom(ev).nil /\ PrefConfigured) =>
                  \A r \in FreeRooms(ev) :
                     distance(booked[ev], PrefLoc) <= distance(r, PrefLoc)

\* Event 2 has a prevRoom and was booked a room while a farther room was
\* free; event 3 has neither neighbour and was booked a room while a room
\* farther from the preferred point was free.
C17_Witness ==
    /\ ~PrevRoom(2).nil
    /\ ~booked[2].nil
    /\ \E r \in FreeRooms(2) : NearKey(booked[2], 2) < NearKey(r, 2)
    /\ PrevRoom(3).nil /\ NextRoom(3).nil /\ PrefConfigured
    /\ ~booked[3].nil
    /\ \E r \in FreeRooms(3) : distance(booked[3], PrefLoc) < distance(r, PrefLoc)
\* C20: the step the scan takes at a roomless event with no prevRoom, no
\* nextRoom and -floor or -section unset stops the run with the fatal
\* configuration error and books no room for the event, whatever the size of
\* the catalog.
C20_FatalWithoutPreference ==
    [][ ( /\ Scanning
          /\ roomsImGoingTo[evIdx].nil
          /\ PrevRoom(evIdx).nil
          /\ NextRoom(evIdx).nil
          /\ (prefFloor = 0 \/ prefSection = 0) )
        => (fatal' /\ booked' = booked /\ writes' = writes) ]_vars

\* ====================================================================
\* The lookup of the rooms the events already have (main.go lines 279-296)
\* ====================================================================

\* Emails are numbered in their string order.  The catalog is sorted by email
\* (line 275) and holds resources with emails 2 and 4 at most; an entry is a
\* conference room or a resource of another category.  NoResource is the nil
\* entry of roomsImGoingTo.
NoResource == [email |-> 0, conf |-> FALSE]
LookupCatalogs ==
    UNION {{<<>>},
           {<<[email |-> m, conf |-> c]>> : m \in {2, 4}, c \in BOOLEAN},
           {<<[email |-> 2, conf |-> c], [email |-> 4, conf |-> d]>> : c, d \in BOOLEAN}}

\* An attendee: its Email, Resource flag and ResponseStatus = "accepted".
LookupAttendees == [email : 1..5, resource : BOOLEAN, accepted : BOOLEAN]
AttendeeLists == UNION {[1..n -> LookupAttendees] : n \in 0..MaxAttendees}

\* The inner loop of lines 280-295 from attendee k on, cur being
\* roomsImGoingTo[eNo] so far.
RECURSIVE LookupRoom(_, _, _, _)
LookupRoom(cat, atts, k, cur) ==
    IF k > Len(atts) THEN cur
    ELSE LET a == atts[k]
             i == Search(Len(cat), [j \in 1..Len(cat) |-> cat[j].email >= a.email])
         IN  IF ~a.resource \/ ~a.accepted
             THEN LookupRoom(cat, atts, k + 1, cur)
             ELSE IF i < Len(cat) /\ cat[i + 1].conf
                  THEN LookupRoom(cat, atts, k + 1, cat[i + 1])
                  ELSE LookupRoom(cat, atts, k + 1, cur)

InitLookup ==
    /\ PartsIdle
    /\ callOp = "lookup"
    /\ callArgs \in LookupCatalogs \X AttendeeLists
    /\ callResult = <<>>

\* One event's pass through lines 280-295.
LookupCall ==
    /\ Calling("lookup")
    /\ Return(<<LookupRoom(callArgs[1], callArgs[2], 1, NoResource)>>)

NextLookup == LookupCall

SpecLookup == InitLookup /\ [][NextLookup]_vars

\* The attendees that are resources with response status accepted.
AcceptedResources(atts) ==
    {atts[k] : k \in {j \in 1..Len(atts) : atts[j].resource /\ atts[j].accepted}}

\* C18: the room recorded for an event, if any, is a conference room of the
\* catalog whose email equals the email of an accepted resource attendee of
\* the event; when no accepted resource attendee has the email of a catalog
\* entry, no room is recorded.
C18_RecordedRoomMatchesEmail ==
    (callOp = "lookup" /\ callResult # <<>>) =>
        LET cat == callArgs[1]
            atts == callArgs[2]
            r == callResult[1]
        IN  /\ r # NoResource =>
                  /\ r.conf
                  /\ \E k \in 1..Len(cat) : cat[k] = r
                  /\ \E a \in AcceptedResources(atts) : a.email = r.email
            /\ (\A a \in AcceptedResources(atts) :
                   \A k \in 1..Len(cat) : cat[k].email # a.email)
               => r = NoResource

\* ====================================================================
\* The free/busy fetch task and main beside it (main.go lines 194-314)
\* ====================================================================

\* batchSize (line 203)
batchSize == 20

\* The catalog as the directory (or the cache file) returned it: the emails
\* 1..n in any order.
CatalogOrders == UNION {Permutations(1..n) : n \in 0..MaxCatalog}

InitFetch ==
    /\ BatchStart(0, 1)
    /\ MapStart
    /\ AssignIdle
    /\ CallIdle
    /\ \E p \in CatalogOrders : FetchStart([k \in DOMAIN p |-> p[k]])

\* Lines 200-207: the loop test and the bounds of the next request.
FetchLoop ==
    /\ pcFetch = "loop"
    /\ IF fetchStart < Len(resourcesInBuildingIndex)
       THEN /\ fetchEnd' = min(fetchStart + batchSize, Len(resourcesInBuildingIndex))
            /\ fetchI' = fetchStart
            /\ reqItems' = <<>>
            /\ pcFetch' = "items"
       ELSE /\ pcFetch' = "done"
            /\ UNCHANGED <<fetchEnd, fetchI, reqItems>>
    /\ UNCHANGED <<resourcesInBuildingIndex, fetchStart, requests, fetched, pcSort,
                   sortI, sortJ, raced>>
    /\ UNCHANGED nonFetchVars

\* Lines 209-211: one iteration, reading resourcesInBuildingIndex[i].
FetchItem ==
    /\ pcFetch = "items"
    /\ IF fetchI < fetchEnd
       THEN /\ reqItems' = Append(reqItems, resourcesInBuildingIndex[fetchI + 1])
            /\ fetchI' = fetchI + 1
            /\ pcFetch' = "items"
       ELSE /\ pcFetch' = "do"
            /\ UNCHANGED <<reqItems, fetchI>>
    /\ UNCHANGED <<resourcesInBuildingIndex, fetchStart, fetchEnd, requests, fetched,
                   pcSort, sortI, sortJ, raced>>
    /\ UNCHANGED nonFetchVars

\* Lines 212-233: the request is sent; the calendars of the response without
\* a notFound error are written to the freeBusy map; start = end.
FetchDo(found) ==
    /\ pcFetch = "do"
    /\ found \subseteq {reqItems[k] : k \in 1..Len(reqItems)}
    /\ requests' = Append(requests, reqItems)
    /\ fetched' = fetched \cup found
    /\ fetchStart' = fetchEnd
    /\ pcFetch' = "loop"
    /\ UNCHANGED <<resourcesInBuildingIndex, fetchEnd, fetchI, reqItems, pcSort,
                   sortI, sortJ, raced>>
    /\ UNCHANGED nonFetchVars

\* Lines 237-271: main enumerates the events, then enters sort.Slice (an
\* insertion sort for a slice of at most 12 elements), i = 1.
MainEnumerate ==
    /\ pcSort = "events"
    /\ pcSort' = "sort"
    /\ sortI' = 1
    /\ sortJ' = 1
    /\ UNCHANGED <<resourcesInBuildingIndex, pcFetch, fetchStart, fetchEnd, fetchI,
                   reqItems, requests, fetched, raced>>
    /\ UNCHANGED nonFetchVars

\* The sequence s with the elements at (1-based) positions a and b exchanged.
Swap(s, a, b) == [s EXCEPT ![a] = s[b], ![b] = s[a]]

\* Lines 275-277: one step of the insertion sort: a swap of the elements
\* j and j-1 when they are out of order, or else the next i, or the end.
MainSortStep ==
    /\ pcSort = "sort"
    /\ IF sortI >= Len(resourcesInBuildingIndex)
       THEN /\ pcSort' = "lookup"
            /\ UNCHANGED <<resourcesInBuildingIndex, sortI, sortJ, raced>>
       ELSE IF sortJ > 0 /\ resourcesInBuildingIndex[sortJ + 1] < resourcesInBuildingIndex[sortJ]
            THEN /\ resourcesInBuildingIndex' = Swap(resourcesInBuildingIndex, sortJ + 1, sortJ)
                 /\ sortJ' = sortJ - 1
                 /\ raced' = (raced \/ pcFetch # "done")
                 /\ UNCHANGED <<pcSort, sortI>>
            ELSE /\ sortI' = sortI + 1
                 /\ sortJ' = sortI + 1
                 /\ UNCHANGED <<pcSort, resourcesInBuildingIndex, raced>>
    /\ UNCHANGED <<pcFetch, fetchStart, fetchEnd, fetchI, reqItems, requests, fetched>>
    /\ UNCHANGED nonFetchVars

\* Lines 279-312: main looks up the existing rooms and logs them.
MainLookup ==
    /\ pcSort = "lookup"
    /\ pcSort' = "wait"
    /\ UNCHANGED <<resourcesInBuildingIndex, pcFetch, fetchStart, fetchEnd, fetchI,
                   reqItems, requests, fetched, sortI, sortJ, raced>>
    /\ UNCHANGED nonFetchVars

\* Line 314: freeBusyWg.Wait() returns once the fetch task is done.
MainJoin ==
    /\ pcSort = "wait"
    /\ pcFetch = "done"
    /\ pcSort' = "joined"
    /\ UNCHANGED <<resourcesInBuildingIndex, pcFetch, fetchStart, fetchEnd, fetchI,
                   reqItems, requests, fetched, sortI, sortJ, raced>>
    /\ UNCHANGED nonFetchVars

NextFetch ==
    \/ FetchLoop
    \/ FetchItem
    \/ \E found \in SUBSET (1..MaxCatalog) : FetchDo(found)
    \/ MainEnumerate
    \/ MainSortStep
    \/ MainLookup
    \/ MainJoin

SpecFetch == InitFetch /\ [][NextFetch]_vars

\* How many of the requests' items are this email.
TimesRequested(email) ==
    LET items == Flatten(requests)
    IN  Cardinality({k \in 1..Len(items) : items[k] = email})

\* C19: in every interleaving, once main has joined the fetch task every
\* resource of the catalog has been put in exactly one free/busy request; no
\* request holds more than 20 resources; and main never writes the catalog
\* while the fetch task may still read it.
C19_EachResourceRequestedOnce ==
    /\ pcSort = "joined" =>
          \A k \in 1..Len(resourcesInBuildingIndex) :
              TimesRequested(resourcesInBuildingIndex[k]) = 1
    /\ \A k \in 1..Len(requests) : Len(requests[k]) <= 20
    /\ ~raced

\* ====================================================================
\* Properties of the calendar writes of a booking
\* ====================================================================

\* The calendar calls of kind op made for event ev.
OpsFor(ev, op) == {k \in 1..Len(writes) : writes[k].event = ev /\ writes[k].op = op}

\* The calls made for a booking are those the claim names: for a truncated
\* attendee list one hold with the booked room, no patch; for a full list
\* with the marker one marker patch and one hold; for a full list without
\* it one attendee patch carrying the room, no hold.
WritesAsClaimed(f) ==
    LET ev == f.event
        holds == OpsFor(ev, "insertHold")
        markers == OpsFor(ev, "patchMarker")
        appends == OpsFor(ev, "patchAttendees")
    IN  /\ f.omitted =>
              /\ markers = {} /\ appends = {}
              /\ Cardinality(holds) = 1
              /\ \A k \in holds : writes[k].room = booked[ev].email
        /\ (~f.omitted /\ f.tagged) =>
              /\ Cardinality(markers) = 1 /\ appends = {}
              /\ Cardinality(holds) = 1
              /\ \A k \in holds : writes[k].room = booked[ev].email
        /\ (~f.omitted /\ ~f.tagged) =>
              /\ Cardinality(appends) = 1 /\ markers = {}
              /\ holds = {}
              /\ \A k \in appends : writes[k].room = booked[ev].email

\* C21 as stated: for every event a room was found for, the calendar calls
\* made for it are: truncated list, one hold insert with the room and no
\* patch; full list, exactly one patch, of the marker (with one hold insert)
\* if the event carried it, else of the attendees (no hold insert).
C21_WritesPerBooking ==
    \A j \in 1..Len(evFlags) : WritesAsClaimed(evFlags[j])

\* C21, amended: the same in a run without -dryrun; in a run with -dryrun no
\* calendar call is made at all.
C21_WritesPerBookingUnlessDryRun ==
    /\ ~dryRun => \A j \in 1..Len(evFlags) : WritesAsClaimed(evFlags[j])
    /\ dryRun => writes = <<>>

\* A run without -dryrun that booked a truncated event, a full-list event
\* with the marker and a full-list event without it.
C21_Witness ==
    /\ ~dryRun
    /\ \E j \in 1..Len(evFlags) : evFlags[j].omitted
    /\ \E j \in 1..Len(evFlags) : ~evFlags[j].omitted /\ evFlags[j].tagged
    /\ \E j \in 1..Len(evFlags) : ~evFlags[j].omitted /\ ~evFlags[j].tagged
    /\ Len(writes) = 4
\* C22: at every point of the scan, two different events booked the same
\* room in this pass do not overlap in time.
C22_NoDoubleBooking ==
    \A e1, e2 \in 1..Len(Events) :
        (e1 # e2 /\ ~booked[e1].nil /\ booked[e1] = booked[e2]) =>
            ~(Events[e2].Start < Events[e1].End /\ Events[e1].Start < Events[e2].End)

\* ====================================================================
\* Properties of the two tasks of Map.Add
\* ====================================================================

\* C23: while an Add is in flight a step that changes the interval array
\* leaves the value array alone and the reverse, and neither changes the
\* insertion index; and whenever no Add is in flight the two arrays have the
\* same length, every call's value is stored once, and the value at each
\* position is that of the call whose interval is at the same position.
C23_AddKeepsPairs ==
    /\ [][ /\ intervals' # intervals => data' = data
           /\ data' # data => intervals' = intervals
           /\ mapPc = "adding" => addIdx' = addIdx ]_vars
    /\ [](mapPc = "idle" =>
            /\ Len(intervals) = Len(data)
            /\ Len(data) = Len(added)
            /\ \A k \in 1..Len(data) :
                  /\ data[k] \in 1..Len(added)
                  /\ intervals[k] = added[data[k]]
            /\ \A j, k \in 1..Len(data) : data[j] = data[k] => j = k)

\* Three Adds have returned, the later ones inserted before earlier ones,
\* and the last Add's interval task ran before its value task.
C23_Witness ==
    /\ mapPc = "idle"
    /\ data = <<3, 2, 1>>
    /\ intervals[1] # intervals[2]
    /\ intervals[2] # intervals[3]

\* An Add in flight whose value task has finished and whose interval task
\* has not: the arrays differ in length.
C23_ValueTaskFirst ==
    /\ mapPc = "adding"
    /\ dataShifted
    /\ ~ivShifted
    /\ Len(data) = Len(intervals) + 1

====
